---------------------------- MODULE Spec2Model ----------------------------
(***************************************************************************)
(* Earthquake Explorer (src/erdbeben_code.py): a Streamlit script that is  *)
(* re-run top to bottom on every user interaction.  One run is             *)
(*   fetch_earthquake_data (memoized, ttl = 120 s)  ->  date widgets  ->   *)
(*   time-window filter  ->  daily aggregation  ->  rendering.             *)
(*                                                                         *)
(* Instants are epoch seconds plus a millisecond part, [s, ms], which is   *)
(* the feed's epoch-millisecond integer split as divmod 1000.  Calendar    *)
(* dates are day ordinals (days since 1970-01-01).  Magnitudes are in      *)
(* tenths; a missing magnitude (JSON null -> NaN) is the empty sequence    *)
(* and a present one is a one-element sequence.                            *)
(***************************************************************************)
EXTENDS Integers, Sequences, FiniteSets

VARIABLES
    pc,            \* position of the script run
    cache,         \* memo entry of st.cache_data for the one URL
    cacheAge,      \* seconds since the memo entry was populated
    netRequested,  \* the fetch call at line 46 issued requests.get
    response,      \* what requests.get returned to that call
    df,            \* module-level DataFrame of this run
    today,         \* date.today() as last read
    start_date,    \* value of the first date widget
    end_date,      \* value of the second date widget
    df_filtered,   \* df[mask]
    daily_stats,   \* the per-day aggregate rows
    view,          \* what the run has rendered after the filter
    error          \* the exception that ended the run, "none" otherwise

vars == <<pc, cache, cacheAge, netRequested, response, df, today, start_date, end_date,
          df_filtered, daily_stats, view, error>>

----------------------------------------------------------------------------
(* Bounds of the model *)

MaxFeatures == 2

MaxAge == 180

TickSteps == {60}

----------------------------------------------------------------------------
(* Calendar and the America/Los_Angeles zone *)

SecondsPerDay == 86400

\* @st.cache_data(ttl=120)
TTL == 120

\* datetime(2025, 1, 1) as a day ordinal
min_date == 20089

\* datetime(2025, 12, 31) as a day ordinal
max_target_date == 20453

\* 2025-03-09, the day on which the zone's clocks go forward
SpringForwardDay == 20156

\* 2025-03-09 10:00:00 UTC: the zone goes from UTC-8 to UTC-7
DstStart == 1741514400

\* 2025-11-02 09:00:00 UTC: the zone goes back to UTC-8
DstEnd == 1762074000

PST == 28800

PDT == 25200

\* seconds the zone's wall clock is behind UTC at the instant s
Behind(s) == IF DstStart <= s /\ s < DstEnd THEN PDT ELSE PST

\* utc_time.tz_localize('UTC').tz_convert(pytz.timezone('America/Los_Angeles'))
tz_convert(t) == [s |-> t.s, ms |-> t.ms, behind |-> Behind(t.s)]

\* pd.to_datetime(properties['time'], unit='ms'): <<seconds, millis>> -> instant
to_datetime(tm) == [s |-> tm[1], ms |-> tm[2]]

\* .dt.date of a zone-aware timestamp: the calendar date of its wall clock
dt_date(tl) == (tl.s - tl.behind) \div SecondsPerDay

\* pd.Timestamp(d, tz="America/Los_Angeles"): local midnight of date d
Timestamp(d) ==
    LET wall == d * SecondsPerDay
    IN  IF Behind(wall + PST) = PST
        THEN [s |-> wall + PST, ms |-> 0, behind |-> PST]
        ELSE [s |-> wall + PDT, ms |-> 0, behind |-> PDT]

\* ts + pd.Timedelta(seconds = n): absolute-time addition, then the zone's
\* offset at the resulting instant
PlusSeconds(ts, n) == [s |-> ts.s + n, ms |-> ts.ms, behind |-> Behind(ts.s + n)]

\* comparison of zone-aware timestamps compares the instants
Leq(a, b) == a.s < b.s \/ (a.s = b.s /\ a.ms <= b.ms)

----------------------------------------------------------------------------
(* The feed: what the server may answer *)

\* wall-clock time of day sec.ms on date d in the zone, as <<seconds, millis>>
\* of the epoch (none of the sampled wall times is skipped or repeated)
At(d, sec, ms) ==
    LET wall == d * SecondsPerDay + sec
    IN  IF Behind(wall + PST) = PST THEN <<wall + PST, ms>> ELSE <<wall + PDT, ms>>

TimeSamples ==
    { At(min_date, 0, 0),                    \* 2025-01-01 00:00:00.000 local
      At(SpringForwardDay + 1, 1800, 0),     \* 2025-03-10 00:30:00.000 local
      At(max_target_date, 86399, 500),       \* 2025-12-31 23:59:59.500 local
      At(max_target_date + 1, 0, 0) }        \* 2026-01-01 00:00:00.000 local

\* properties.mag in tenths: null, 2.0, 4.0
MagSamples == { <<>>, <<20>>, <<40>> }

Coordinates == <<-1200, 350, 50>>

GoodFeatures ==
    { [properties |-> [place |-> "p", mag |-> m, time |-> t],
       geometry   |-> [coordinates |-> Coordinates]] :
      m \in MagSamples, t \in TimeSamples }

\* features that lack one required field
BadFeatures ==
    { [properties |-> [mag |-> <<20>>, time |-> At(min_date, 0, 0)],
       geometry   |-> [coordinates |-> Coordinates]],
      [properties |-> [place |-> "p", time |-> At(min_date, 0, 0)],
       geometry   |-> [coordinates |-> Coordinates]],
      [properties |-> [place |-> "p", mag |-> <<20>>],
       geometry   |-> [coordinates |-> Coordinates]],
      [properties |-> [place |-> "p", mag |-> <<20>>, time |-> At(min_date, 0, 0)],
       geometry   |-> [coordinates |-> <<-1200>>]] }

Features == GoodFeatures \cup BadFeatures

FeatureLists == UNION { [1..n -> Features] : n \in 0..MaxFeatures }

NoResponse == [status |-> "none", data |-> [type |-> "none"]]

\* what requests.get(url) / response.json() may yield
Responses ==
    { [status |-> "unreachable", data |-> [type |-> "none"]],
      [status |-> "notjson", data |-> [type |-> "none"]],
      [status |-> "json", data |-> [type |-> "FeatureCollection"]] }
    \cup { [status |-> "json", data |-> [type |-> "FeatureCollection", features |-> fs]] :
           fs \in FeatureLists }

----------------------------------------------------------------------------
(* fetch_earthquake_data: the body of the memoized function *)

\* the subscripts of one loop iteration all succeed
Subscriptable(feature) ==
    /\ "properties" \in DOMAIN feature
    /\ "geometry" \in DOMAIN feature
    /\ {"time", "place", "mag"} \subseteq DOMAIN feature.properties
    /\ "coordinates" \in DOMAIN feature.geometry
    /\ Len(feature.geometry.coordinates) >= 2

\* a normalizer that drops features whose magnitude is null
SkipNullRecord(feature) ==
    IF feature.properties.mag = <<>> THEN <<>>
    ELSE << [place      |-> feature.properties.place,
             magnitude  |-> feature.properties.mag,
             time_utc   |-> to_datetime(feature.properties.time),
             time_local |-> tz_convert(to_datetime(feature.properties.time)),
             latitude   |-> feature.geometry.coordinates[2],
             longitude  |-> feature.geometry.coordinates[1]] >>

\* lines 33-40: the dict appended for one feature
Record(feature) ==
    << [place      |-> feature.properties.place,
        magnitude  |-> feature.properties.mag,
        time_utc   |-> to_datetime(feature.properties.time),
        time_local |-> tz_convert(to_datetime(feature.properties.time)),
        latitude   |-> feature.geometry.coordinates[2],
        longitude  |-> feature.geometry.coordinates[1]] >>

RECURSIVE Loop(_, _, _)
\* for feature in features: ... earthquakes.append({...})
Loop(features, i, earthquakes) ==
    IF i > Len(features) THEN [raised |-> "none", rows |-> earthquakes]
    ELSE IF ~ Subscriptable(features[i])
         THEN [raised |-> IF /\ "properties" \in DOMAIN features[i]
                             /\ "geometry" \in DOMAIN features[i]
                             /\ {"time", "place", "mag"} \subseteq DOMAIN features[i].properties
                             /\ "coordinates" \in DOMAIN features[i].geometry
                          THEN "IndexError" ELSE "KeyError",
               rows |-> <<>>]
         ELSE Loop(features, i + 1, earthquakes \o Record(features[i]))

\* a body that tolerates malformed features by leaving them out
SkipMalformedBody(resp) ==
    IF resp.status = "unreachable" THEN [raised |-> "ConnectionError", rows |-> <<>>]
    ELSE IF resp.status = "notjson" THEN [raised |-> "JSONDecodeError", rows |-> <<>>]
    ELSE IF "features" \notin DOMAIN resp.data THEN [raised |-> "KeyError", rows |-> <<>>]
    ELSE Loop(SelectSeq(resp.data.features, Subscriptable), 1, <<>>)

\* lines 22-42: the outcome of one uncached call
Body(resp) ==
    IF resp.status = "unreachable" THEN [raised |-> "ConnectionError", rows |-> <<>>]
    ELSE IF resp.status = "notjson" THEN [raised |-> "JSONDecodeError", rows |-> <<>>]
    ELSE IF "features" \notin DOMAIN resp.data THEN [raised |-> "KeyError", rows |-> <<>>]
    ELSE Loop(resp.data.features, 1, <<>>)

----------------------------------------------------------------------------
(* st.cache_data(ttl=120): the memo of fetch_earthquake_data *)

NoEntry == [has |-> FALSE, rows |-> <<>>]

\* a memo that expires after half the ttl
ExpiresEarly(entry, age) == entry.has /\ age < TTL \div 2

\* an entry is served while its age is below the ttl
Fresh(entry, age) == entry.has /\ age < TTL

----------------------------------------------------------------------------
(* Date widgets, lines 51-60 *)

Min(a, b) == IF a <= b THEN a ELSE b

\* an upper bound that forgets the clock
IgnoresToday(t) == max_target_date

\* min(today, max_target_date.date())
max_allowed_date(t) == Min(t, max_target_date)

\* the dates a user may try to pick, and the days the clock may show
DateSamples ==
    { min_date - 1, min_date, SpringForwardDay, max_target_date, max_target_date + 1 }

TodaySamples == { min_date - 1, SpringForwardDay + 1, max_target_date + 15 }

\* a widget that ignores min_value and max_value
Unbounded(lo, hi) == DateSamples

\* st.date_input(..., min_value=lo, max_value=hi): the values the widget can hold
Selectable(lo, hi) == { d \in DateSamples : lo <= d /\ d <= hi }

\* the widget's default value lies outside [min_value, max_value]
DefaultRejected(value, lo, hi) == value < lo \/ value > hi

----------------------------------------------------------------------------
(* Time-window filter, lines 65-69 *)

\* columns of pd.DataFrame(earthquakes): a frame built from no dicts has none
Columns(frame) ==
    IF Len(frame) = 0 THEN {}
    ELSE {"place", "magnitude", "time_utc", "time_local", "latitude", "longitude"}

start_dt(d) == Timestamp(d)

\* pd.Timestamp(end_date, tz=...) + pd.Timedelta(days=1) - pd.Timedelta(seconds=1)
end_dt(d) == PlusSeconds(PlusSeconds(Timestamp(d), SecondsPerDay), 0 - 1)

\* (df['time_local'] >= start_dt) & (df['time_local'] <= end_dt), row-wise
mask(row, s, e) == Leq(start_dt(s), row.time_local) /\ Leq(row.time_local, end_dt(e))

\* df[mask]
Filtered(frame, s, e) == SelectSeq(frame, LAMBDA row : mask(row, s, e))

----------------------------------------------------------------------------
(* Daily aggregation, lines 79-83 *)

RECURSIVE SumMag(_)
SumMag(rows) ==
    IF rows = <<>> THEN 0
    ELSE (IF Head(rows).magnitude = <<>> THEN 0 ELSE Head(rows).magnitude[1])
         + SumMag(Tail(rows))

\* "count": the number of non-null magnitudes of the group
CountMag(rows) == Len(SelectSeq(rows, LAMBDA row : row.magnitude # <<>>))

\* a mean that counts a missing magnitude as zero
MeanZeroFilled(rows) ==
    IF CountMag(rows) = 0 THEN [num |-> 0, den |-> 1]
    ELSE [num |-> SumMag(rows), den |-> Len(rows)]

\* "mean": the sum of the non-null magnitudes over their number, as the
\* fraction num/den; den = 0 is NaN
Mean(rows) == [num |-> SumMag(rows), den |-> CountMag(rows)]

GroupKeys(frame) == { dt_date(frame[i].time_local) : i \in 1..Len(frame) }

Group(frame, day) == SelectSeq(frame, LAMBDA row : dt_date(row.time_local) = day)

RECURSIVE Ascending(_)
\* the group keys in ascending order (groupby sorts its keys)
Ascending(S) ==
    IF S = {} THEN <<>>
    ELSE LET m == CHOOSE x \in S : \A y \in S : x <= y
         IN  <<m>> \o Ascending(S \ {m})

\* groupby(time_local.dt.date).agg(count, avg_magnitude).reset_index()
Aggregated(frame) ==
    LET keys == Ascending(GroupKeys(frame))
    IN  [ k \in 1..Len(keys) |->
            [date          |-> keys[k],
             count         |-> CountMag(Group(frame, keys[k])),
             avg_magnitude |-> Mean(Group(frame, keys[k]))] ]

\* df_filtered[df_filtered["magnitude"] > 0]
df_positive(frame) ==
    SelectSeq(frame, LAMBDA row : row.magnitude # <<>> /\ row.magnitude[1] > 0)

----------------------------------------------------------------------------
(* The script run *)

NoView == [summary |-> <<>>, chart |-> <<>>, map |-> "none"]

Init ==
    /\ pc = "idle"
    /\ cache = NoEntry
    /\ cacheAge = 0
    /\ netRequested = FALSE
    /\ response = NoResponse
    /\ df = <<>>
    /\ today \in TodaySamples
    /\ start_date = 0
    /\ end_date = 0
    /\ df_filtered = <<>>
    /\ daily_stats = <<>>
    /\ view = NoView
    /\ error = "none"

\* wall-clock time passes between two runs
Tick(d) ==
    /\ pc = "idle"
    /\ cache.has
    /\ cacheAge + d <= MaxAge
    /\ cacheAge' = cacheAge + d
    /\ UNCHANGED <<pc, cache, netRequested, response, df, today, start_date, end_date,
                   df_filtered, daily_stats, view, error>>

\* line 46 with a fresh memo entry: the memoized value is returned
FetchCached ==
    /\ pc = "idle"
    /\ Fresh(cache, cacheAge)
    /\ df' = cache.rows
    /\ netRequested' = FALSE
    /\ pc' = "fetched"
    /\ UNCHANGED <<cache, cacheAge, response, today, start_date, end_date,
                   df_filtered, daily_stats, view, error>>

\* line 46 without a fresh memo entry: the body runs and line 22 sends the
\* request; an expired entry is dropped
CacheMiss ==
    /\ pc = "idle"
    /\ ~ Fresh(cache, cacheAge)
    /\ netRequested' = TRUE
    /\ cache' = NoEntry
    /\ cacheAge' = 0
    /\ pc' = "requesting"
    /\ UNCHANGED <<response, df, today, start_date, end_date, df_filtered,
                   daily_stats, view, error>>

\* lines 22-42 and the memo's store: the value is memoized when the body
\* returns, and nothing is stored when it raises
Respond(r) ==
    /\ pc = "requesting"
    /\ response' = r
    /\ LET result == Body(r)
       IN  IF result.raised = "none"
           THEN /\ df' = result.rows
                /\ cache' = [has |-> TRUE, rows |-> result.rows]
                /\ pc' = "fetched"
                /\ error' = "none"
           ELSE /\ df' = <<>>
                /\ cache' = NoEntry
                /\ pc' = "error"
                /\ error' = result.raised
    /\ UNCHANGED <<cacheAge, netRequested, today, start_date, end_date,
                   df_filtered, daily_stats, view>>

\* lines 51-60: the bounds are computed from the clock and both widgets are
\* read; a widget whose default lies outside its bounds raises
DateWidgets(t, s, e) ==
    /\ pc = "fetched"
    /\ t >= today
    /\ today' = t
    /\ netRequested' = FALSE
    /\ response' = NoResponse
    /\ IF \/ DefaultRejected(min_date, min_date, max_allowed_date(t))
          \/ DefaultRejected(max_allowed_date(t), min_date, max_allowed_date(t))
       THEN /\ pc' = "error"
            /\ error' = "StreamlitAPIException"
            /\ UNCHANGED <<start_date, end_date>>
       ELSE /\ s \in Selectable(min_date, max_allowed_date(t))
            /\ e \in Selectable(min_date, max_allowed_date(t))
            /\ start_date' = s
            /\ end_date' = e
            /\ pc' = "dates"
            /\ error' = "none"
    /\ UNCHANGED <<cache, cacheAge, df, df_filtered, daily_stats, view>>

\* lines 65-73: the mask, df_filtered and the summary line
Filter ==
    /\ pc = "dates"
    /\ IF "time_local" \in Columns(df)
       THEN /\ df_filtered' = Filtered(df, start_date, end_date)
            /\ view' = [view EXCEPT !.summary = <<Len(Filtered(df, start_date, end_date))>>]
            /\ pc' = "filtered"
            /\ error' = "none"
       ELSE /\ pc' = "error"
            /\ error' = "KeyError"
            /\ UNCHANGED <<df_filtered, view>>
    /\ UNCHANGED <<cache, cacheAge, netRequested, response, df, today, start_date,
                   end_date, daily_stats>>

\* lines 79-101: daily_stats and the bar chart
Aggregate ==
    /\ pc = "filtered"
    /\ daily_stats' = Aggregated(df_filtered)
    /\ view' = [view EXCEPT !.chart = <<Aggregated(df_filtered)>>]
    /\ pc' = "aggregated"
    /\ UNCHANGED <<cache, cacheAge, netRequested, response, df, today, start_date,
                   end_date, df_filtered, error>>

\* lines 106-158: the table, the plate boundaries and the map or the warning
RenderMap(platesOk) ==
    /\ pc = "aggregated"
    /\ IF platesOk
       THEN /\ view' = [view EXCEPT !.map =
                           IF df_positive(df_filtered) = <<>> THEN "warning" ELSE "map"]
            /\ pc' = "rendered"
            /\ error' = "none"
       ELSE /\ pc' = "error"
            /\ error' = "ConnectionError"
            /\ UNCHANGED view
    /\ UNCHANGED <<cache, cacheAge, netRequested, response, df, today, start_date,
                   end_date, df_filtered, daily_stats>>

\* the run is over; the next interaction starts the script again
Finish ==
    /\ pc \in {"rendered", "error"}
    /\ pc' = "idle"
    /\ netRequested' = FALSE
    /\ response' = NoResponse
    /\ df' = <<>>
    /\ start_date' = 0
    /\ end_date' = 0
    /\ df_filtered' = <<>>
    /\ daily_stats' = <<>>
    /\ view' = NoView
    /\ error' = "none"
    /\ UNCHANGED <<cache, cacheAge, today>>

Next ==
    \/ \E d \in TickSteps : Tick(d)
    \/ FetchCached
    \/ CacheMiss
    \/ \E r \in Responses : Respond(r)
    \/ \E t \in TodaySamples, s \in DateSamples, e \in DateSamples : DateWidgets(t, s, e)
    \/ Filter
    \/ Aggregate
    \/ \E platesOk \in BOOLEAN : RenderMap(platesOk)
    \/ Finish

Spec == Init /\ [][Next]_vars

----------------------------------------------------------------------------
(* Properties *)

\* the mask has been computed in this run
FilterRan == view.summary # <<>>

\* the aggregation has been computed in this run
AggregateRan == view.chart # <<>>

\* start_date 00:00:00 local and end_date 23:59:59 local, as instants
DayStart(d) == [s |-> At(d, 0, 0)[1], ms |-> 0]

DayEnd(d) == [s |-> At(d, SecondsPerDay - 1, 0)[1], ms |-> 0]

InDayRange(row, s, e) ==
    Leq(DayStart(s), row.time_local) /\ Leq(row.time_local, DayEnd(e))

\* C1: the filter selects exactly the events whose time_local lies between
\* start_date 00:00:00 local and end_date 23:59:59 local of that same calendar
\* day, also when end_date is a day on which the zone changes its offset.
C1_WindowIsWholeDays ==
    FilterRan =>
        df_filtered = SelectSeq(df, LAMBDA row : InDayRange(row, start_date, end_date))

\* C2: filtering with [2025-01-01, 2025-12-31] returns every event whose local
\* calendar date falls in that year, and no other event.
C2_WholeYearByLocalDate ==
    (FilterRan /\ start_date = min_date /\ end_date = max_target_date) =>
        df_filtered =
            SelectSeq(df, LAMBDA row : /\ min_date <= dt_date(row.time_local)
                                       /\ dt_date(row.time_local) <= max_target_date)

RECURSIVE SumCounts(_)
SumCounts(rows) == IF rows = <<>> THEN 0 ELSE Head(rows).count + SumCounts(Tail(rows))

EventsOn(frame, day) == { i \in 1..Len(frame) : dt_date(frame[i].time_local) = day }

\* C3: the counts of the DailyAggregate rows sum to the number of filtered
\* events, and each row's count is the number of filtered events on its date,
\* also when some magnitudes are missing.
C3_CountsAllEvents ==
    AggregateRan =>
        /\ SumCounts(daily_stats) = Len(df_filtered)
        /\ \A k \in 1..Len(daily_stats) :
              daily_stats[k].count = Cardinality(EventsOn(df_filtered, daily_stats[k].date))

InBounds(d) == min_date <= d /\ d <= Min(today, max_target_date)

WidgetsRead == pc \in {"dates", "filtered", "aggregated", "rendered"} \/ FilterRan

\* C4: a start or end date outside [2025-01-01, min(today, 2025-12-31)] never
\* reaches the filter: the run that would use one is ended by the widget's
\* range error with no mask, no aggregate and nothing rendered.
C4_OutOfRangeRejected ==
    /\ FilterRan => InBounds(start_date) /\ InBounds(end_date)
    /\ WidgetsRead => InBounds(min_date) /\ InBounds(Min(today, max_target_date))
    /\ error = "StreamlitAPIException" =>
          /\ pc = "error"
          /\ view = NoView
          /\ df_filtered = <<>>
          /\ daily_stats = <<>>

C4_Witness ==
    /\ error = "StreamlitAPIException"
    /\ ~ InBounds(min_date)
    /\ df # <<>>

\* the step in which line 46 calls fetch_earthquake_data
FetchCall == pc = "idle" /\ pc' # "idle"

\* C5 as stated: a call made less than 120 s after the memo was populated
\* sends no request and returns the memoized snapshot, and a request is sent
\* only when there is no entry or its age exceeds 120 s.
C5_RequestOnlyBeyondTtl ==
    [][ FetchCall =>
          /\ (cache.has /\ cacheAge < TTL) => (~ netRequested' /\ df' = cache.rows)
          /\ netRequested' => (~ cache.has \/ cacheAge > TTL) ]_vars

\* C5 amended: a call made less than 120 s after the memo was populated sends
\* no request and returns the memoized snapshot, and a request is sent only
\* when there is no entry or its age is at least 120 s.
C5_RequestOnlyFromTtl ==
    [][ FetchCall =>
          /\ (cache.has /\ cacheAge < TTL) => (~ netRequested' /\ df' = cache.rows)
          /\ netRequested' => (~ cache.has \/ cacheAge >= TTL) ]_vars

C5_Witness ==
    /\ pc = "fetched"
    /\ ~ netRequested
    /\ 0 < cacheAge /\ cacheAge < TTL
    /\ df = cache.rows
    /\ df # <<>>

\* the run holds the answer of a request whose document lists features
HasFeatures == response.status = "json" /\ "features" \in DOMAIN response.data

\* C6: one record per feature, in feed order: the i-th record carries the
\* i-th feature's place, magnitude, instant and coordinates.
C6_OneRecordPerFeature ==
    (pc = "fetched" /\ HasFeatures) =>
        /\ Len(df) = Len(response.data.features)
        /\ \A i \in 1..Len(df) :
              LET f == response.data.features[i]
              IN  /\ df[i].place = f.properties.place
                  /\ df[i].magnitude = f.properties.mag
                  /\ <<df[i].time_utc.s, df[i].time_utc.ms>> = f.properties.time
                  /\ <<df[i].time_local.s, df[i].time_local.ms>> = f.properties.time
                  /\ df[i].longitude = f.geometry.coordinates[1]
                  /\ df[i].latitude = f.geometry.coordinates[2]

C6_Witness ==
    /\ pc = "fetched"
    /\ HasFeatures
    /\ Len(df) = 2
    /\ df[1].magnitude = <<>>
    /\ df[1].time_utc.s > df[2].time_utc.s

RECURSIVE SumOver(_, _)
SumOver(frame, I) ==
    IF I = {} THEN 0
    ELSE LET i == CHOOSE x \in I : TRUE
         IN  frame[i].magnitude[1] + SumOver(frame, I \ {i})

Present(frame, day) == { i \in EventsOn(frame, day) : frame[i].magnitude # <<>> }

\* C7: avg_magnitude of a date is the mean over the events of that date whose
\* magnitude is present; when none is present it is null (0/0), never zero.
C7_MeanOverPresent ==
    AggregateRan =>
        \A k \in 1..Len(daily_stats) :
            LET present == Present(df_filtered, daily_stats[k].date)
                avg     == daily_stats[k].avg_magnitude
            IN  /\ avg.den = Cardinality(present)
                /\ avg.num = SumOver(df_filtered, present)
                /\ present = {} => avg.den = 0

C7_Witness ==
    /\ AggregateRan
    /\ \E k \in 1..Len(daily_stats) :
          /\ daily_stats[k].avg_magnitude.den = 0
          /\ Cardinality(EventsOn(df_filtered, daily_stats[k].date)) = 2
    /\ Len(df_filtered) = 2

NoEventInWindow == \A i \in 1..Len(df) : ~ mask(df[i], start_date, end_date)

\* C8: with a fetched snapshot of any size, the empty one included, and a
\* window holding none of its events, the filtered set and the aggregate are
\* empty and the run reaches the "no data" state; only the plate-boundary
\* request can still end the run.
C8_EmptyIsNotAnError ==
    (start_date # 0 /\ NoEventInWindow) =>
        /\ pc = "error" => (error = "ConnectionError" /\ AggregateRan)
        /\ FilterRan => df_filtered = <<>>
        /\ AggregateRan => daily_stats = <<>>
        /\ pc = "rendered" => view.map = "warning"

\* C9 as stated: the dates that reach the filter satisfy start_date <= end_date.
C9_StartNotAfterEnd == FilterRan => start_date <= end_date

\* C9 amended: each widget alone keeps its date within
\* [2025-01-01, min(today, 2025-12-31)]; the order of the two is not
\* constrained, so start_date > end_date can reach the filter.
C9_EachDateInBounds ==
    start_date # 0 =>
        /\ min_date <= start_date /\ start_date <= today /\ start_date <= max_target_date
        /\ min_date <= end_date /\ end_date <= today /\ end_date <= max_target_date

C9_Witness ==
    /\ FilterRan
    /\ start_date > end_date
    /\ df # <<>>

\* a feature without properties.place, properties.mag, properties.time or two
\* coordinates
LacksRequired(f) ==
    \/ "place" \notin DOMAIN f.properties
    \/ "mag" \notin DOMAIN f.properties
    \/ "time" \notin DOMAIN f.properties
    \/ Len(f.geometry.coordinates) < 2

Malformed ==
    /\ HasFeatures
    /\ \E i \in 1..Len(response.data.features) : LacksRequired(response.data.features[i])

\* C10: when a feature lacks a required field the call raises: no record
\* reaches the caller, nothing is memoized, and neither the filter nor the
\* aggregate nor the rendering of that run takes place.
C10_MalformedAbortsRun ==
    Malformed =>
        /\ pc = "error"
        /\ error \in {"KeyError", "IndexError"}
        /\ df = <<>>
        /\ cache = NoEntry
        /\ ~ FilterRan
        /\ ~ AggregateRan
        /\ df_filtered = <<>>
        /\ daily_stats = <<>>
        /\ view = NoView

C10_Witness ==
    /\ Malformed
    /\ pc = "error"
    /\ Len(response.data.features) = 2
    /\ ~ LacksRequired(response.data.features[1])

=============================================================================
